---- MODULE Spec2Model ----
(***************************************************************************)
(* Model of the racetrack call tracker (racetrack/src/tracker.rs).         *)
(*                                                                         *)
(* The Tracker owns `calls`, an Arc<Mutex<HashMap<String, Calls>>> where   *)
(* Calls = Arc<RwLock<Vec<CallInfo>>>.  Logs live in a heap `logs` indexed *)
(* by log identities, so that a handle held by an Assertion aliases the    *)
(* log registered in the map exactly as a cloned Arc does.  Every method   *)
(* is split at its lock acquisitions: the step that takes a lock and the   *)
(* step that runs the critical section and drops the guards.               *)
(***************************************************************************)
EXTENDS Integers, Sequences, FiniteSets, TLC

(***************************************************************************)
(* Bounds of the model.                                                    *)
(***************************************************************************)
\* most records alive at once in all logs of the concurrent specification
MaxCalls == 2
\* most records alive at once in all logs of the single-thread specification
MaxCallsSeq == 3
\* largest n passed to was_called_times
MaxTimes == 3
\* most records in all logs together, progress specification
MaxCallsLive == 2
\* most records in all logs together, specification of the instrumented
\* impl blocks
MaxCallsMacro == 3

\* keys are Strings compared exactly: "f" and "F" are different keys
Keys == {"f", "F"}
\* Tracker instances made by Tracker::new
Trackers == {"T1", "T2"}
\* the Tracker of the specifications that use one
TrackerOne == "T1"
Threads == {"t1", "t2", "t3"}
\* the threads of the specification of two threads
ConcThreads == {"t1", "t2"}
MainThread == "t1"
NoThread == "none"

\* 0 stands for "no log" (Option::None of HashMap::get)
NoLog == 0

(***************************************************************************)
(* Payloads: Option<Box<dyn Any + Send + Sync>>.  A boxed value keeps its  *)
(* TypeId (ty) next to the value (val).                                    *)
(***************************************************************************)
None == [tag |-> "None"]
Some(ty, val) == [tag |-> "Some", ty |-> ty, val |-> val]

\* values that log_call records
LoggedPayloads == {None, Some("i32", 1), Some("String", 1)}
\* values a test passes to with / not_with / and_returned (always a value)
Expected == {Some("i32", 1), Some("i32", 2), Some("String", 1)}

CallInfo(a, r) == [arguments |-> a, returned |-> r]
\* call infos logged in the single-thread specification: every combination
SeqInfos == {CallInfo(a, r) : a \in LoggedPayloads, r \in LoggedPayloads}
\* call infos logged in the concurrent specification
ConcInfos == {CallInfo(Some("i32", 1), Some("String", 1)), CallInfo(None, None)}

(***************************************************************************)
(* Outcomes of a check: Ok, or the panic message (its format string).      *)
(***************************************************************************)
Pending == "pending"
Ok == "ok"
MsgWasntCalled == "{} wasn't called."
MsgMoreThanOnce == "{} was called more than once. Was called {} times."
MsgTimesButWasnt == "{} should've been called {} times, but wasn't called."
MsgFewer == "{} was called fewer than {} times. Was called {} times."
MsgMore == "{} was called more than {} times. Was called {} times."
MsgShouldNot == "{} should not have been called but was called {} times."
MsgNoArguments == "You didn't log any arguments for your calls to {}."
MsgWrongType == "The arguments logged for {} didn't have that type."
MsgNotWith == "{} wasn't called with the arguments specified."
MsgWasWith == "{} was called with the argument when it should'nt have been."

(***************************************************************************)
(* Pure parts of the checks, on the Vec<CallInfo> v behind the read guard. *)
(***************************************************************************)
\* was_called_once without its second assertion
was_called_once_at_least(v) ==
    IF Len(v) = 0 THEN MsgWasntCalled ELSE Ok

\* was_called_once with one failure for every length other than 1
was_called_once_merged(v) ==
    IF Len(v) # 1 THEN MsgMoreThanOnce ELSE Ok

\* Assertion::was_called_once: assert_ne!(len, 0), then assert_eq!(len, 1)
was_called_once(v) ==
    IF Len(v) = 0 THEN MsgWasntCalled
    ELSE IF Len(v) # 1 THEN MsgMoreThanOnce
    ELSE Ok

\* the values formatted into the panic message of was_called_once for the
\* key k: self.key, and item.len() in the second assertion
was_called_once_args(v, k) ==
    IF Len(v) = 0 THEN <<k>>
    ELSE IF Len(v) # 1 THEN <<k, Len(v)>>
    ELSE <<>>

\* Assertion::was_called_times: assert_ne!(len, 0), assert!(len >= n),
\* assert_eq!(len, n), in this order
was_called_times(v, n) ==
    IF Len(v) = 0 THEN MsgTimesButWasnt
    ELSE IF ~(Len(v) >= n) THEN MsgFewer
    ELSE IF Len(v) # n THEN MsgMore
    ELSE Ok

\* wasnt_called that tolerates a single call
wasnt_called_off_by_one(v) ==
    IF Len(v) > 1 THEN MsgShouldNot ELSE Ok

\* Assertion::wasnt_called: assert_eq!(len, 0)
wasnt_called(v) ==
    IF Len(v) # 0 THEN MsgShouldNot ELSE Ok

\* a closure that takes a payload of another type as merely unequal
closure_silent(payload, x) ==
    IF payload = None THEN MsgNoArguments
    ELSE IF payload.ty # x.ty THEN "false"
    ELSE IF payload.val = x.val THEN "true"
    ELSE "false"

\* The closure of item.iter().any(..) on one record: Option::expect on the
\* payload, downcast_ref::<T>().expect on its type, then cast == &x.
\* Result: "true", "false", or the panic message of a failed expect.
closure(payload, x) ==
    IF payload = None THEN MsgNoArguments
    ELSE IF payload.ty # x.ty THEN MsgWrongType
    ELSE IF payload.val = x.val THEN "true"
    ELSE "false"

\* Iterator::any: applies the closure front to back and stops at the first
\* record for which it returns true; a panic of the closure unwinds out.
RECURSIVE any(_, _, _)
any(v, field, x) ==
    IF v = <<>> THEN "false"
    ELSE LET c == closure(Head(v)[field], x)
         IN  IF c = "false" THEN any(Tail(v), field, x) ELSE c

\* MetaAssertion::with
with(v, x) ==
    IF ~(Len(v) > 0) THEN MsgWasntCalled
    ELSE LET a == any(v, "arguments", x)
         IN  IF a = "true" THEN Ok
             ELSE IF a = "false" THEN MsgNotWith
             ELSE a

\* MetaAssertion::not_with
not_with(v, x) ==
    IF Len(v) > 0
    THEN LET a == any(v, "arguments", x)
         IN  IF a = "false" THEN Ok
             ELSE IF a = "true" THEN MsgWasWith
             ELSE a
    ELSE Ok

\* an and_returned that looks at the arguments of the records
and_returned_arguments(v, x) ==
    IF ~(Len(v) > 0) THEN MsgWasntCalled
    ELSE LET a == any(v, "arguments", x)
         IN  IF a = "true" THEN Ok
             ELSE IF a = "false" THEN MsgNotWith
             ELSE a

\* MetaAssertion::and_returned (same messages as with)
and_returned(v, x) ==
    IF ~(Len(v) > 0) THEN MsgWasntCalled
    ELSE LET a == any(v, "returned", x)
         IN  IF a = "true" THEN Ok
             ELSE IF a = "false" THEN MsgNotWith
             ELSE a

\* a push that drops a record equal to one already logged
push_dedup(v, call_info) ==
    IF \E i \in 1..Len(v) : v[i] = call_info THEN v ELSE Append(v, call_info)

\* a push at the front
push_front(v, call_info) == <<call_info>> \o v

\* a push that overwrites the last record
push_overwrite(v, call_info) == Append(SubSeq(v, 1, Len(v) - 1), call_info)

\* Vec::push
push(v, call_info) == Append(v, call_info)

\* a lookup that ignores the case of the key
OtherCase(k) == IF k = "f" THEN "F" ELSE "f"
get_ignore_case(map, k) == IF map[k] # NoLog THEN map[k] ELSE map[OtherCase(k)]

\* HashMap::get(&key): the entry stored under exactly this String, or none
get(map, k) == map[k]

(***************************************************************************)
(* The track_with attribute (racetrack-proc-macro/src/lib.rs) on impl      *)
(* blocks.  The text of an attribute value is a sequence of pieces: the    *)
(* identifiers, "," and " ".                                               *)
(***************************************************************************)
\* Option<String>
SomeStr(s) == [tag |-> "Some", val |-> s]

\* str::split(","): the pieces between the commas
RECURSIVE split(_)
split(token) ==
    IF \A i \in 1..Len(token) : token[i] # "," THEN <<token>>
    ELSE LET i == CHOOSE j \in 1..Len(token) :
                      token[j] = "," /\ \A h \in 1..(j - 1) : token[h] # ","
         IN  <<SubSeq(token, 1, i - 1)>> \o split(SubSeq(token, i + 1, Len(token)))

\* str::trim: without the white space at both ends
RECURSIVE trim(_)
trim(s) ==
    IF s # <<>> /\ Head(s) = " " THEN trim(Tail(s))
    ELSE IF s # <<>> /\ s[Len(s)] = " " THEN trim(SubSeq(s, 1, Len(s) - 1))
    ELSE s

\* to_string: the pieces as one String
RECURSIVE to_string(_)
to_string(s) == IF s = <<>> THEN "" ELSE Head(s) \o to_string(Tail(s))

\* parse_args: the first argument is the path of the tracker; exclude is
\* split at the commas and trimmed, include_receiver defaults to true,
\* namespace to None
parse_args(attr) ==
    [tracker_path |-> attr.tracker_path,
     exclude |-> IF "exclude" \in DOMAIN attr
                 THEN LET value == split(attr.exclude)
                      IN  [i \in 1..Len(value) |-> to_string(trim(value[i]))]
                 ELSE <<>>,
     include_receiver |-> IF "include_receiver" \in DOMAIN attr
                          THEN attr.include_receiver ELSE TRUE,
     namespace |-> IF "namespace" \in DOMAIN attr
                   THEN SomeStr(attr.namespace) ELSE None]

\* Vec::contains
contains(vec, x) == \E i \in 1..Len(vec) : vec[i] = x

\* cloned_inputs: the inputs that are typed (the receiver is not) and whose
\* pattern is an identifier, each as ident.to_owned(); here their positions
\* among the typed inputs
RECURSIVE cloned_inputs(_)
cloned_inputs(inputs) ==
    IF inputs = <<>> THEN <<>>
    ELSE LET front == cloned_inputs(SubSeq(inputs, 1, Len(inputs) - 1))
         IN  IF inputs[Len(inputs)].pat = "Ident"
             THEN Append(front, Len(inputs)) ELSE front

\* the calls of log_call in the body of a method, in the order they run: a
\* method as written has none
log_calls(method) ==
    IF "log_calls" \in DOMAIN method THEN method.log_calls ELSE <<>>

\* the body  let args = ..; let returned = { statements };
\*           tracker_path.log_call(name, ..); returned
\* around the statements of the method: what the statements do, a log_call
\* made by them too, comes first
Wrap(method, tracker_path, name) ==
    [f \in DOMAIN method \cup {"log_calls"} |->
        IF f = "log_calls"
        THEN Append(log_calls(method), [tracker_path |-> tracker_path, name |-> name])
        ELSE method[f]]

\* track_method: an excluded method, and a method without receiver when
\* include_receiver is set, stay as they are (quote!(#method)); any other
\* method gets the generated body with name = "namespace::ident" and the
\* tracker at self.path or at path.  The attributes of the method are put
\* on the generated method in both cases.
track_method(args, method, namespace) ==
    IF contains(args.exclude, method.ident) THEN method
    ELSE IF args.include_receiver /\ ~method.receiver THEN method
    ELSE Wrap(method,
              IF args.include_receiver
              THEN "self." \o args.tracker_path
              ELSE args.tracker_path,
              namespace \o "::" \o method.ident)

\* track_function, for an attribute written on a function or on a method:
\* the generated body with name = "namespace::ident" or "ident"; the
\* attribute that is expanded is no longer on the item
track_function(args, fun) ==
    LET generated ==
            Wrap(fun, args.tracker_path,
                 IF args.namespace # None
                 THEN args.namespace.val \o "::" \o fun.ident
                 ELSE fun.ident)
    IN  [f \in DOMAIN generated \ {"attr"} |-> generated[f]]

\* the namespace of an impl block: the one given in the attribute, or the
\* type of the block
Namespace(args, item_impl) ==
    IF args.namespace # None THEN args.namespace.val ELSE item_impl.self_ty

\* track_impl: every method goes through track_method with the namespace
\* of the block.  The result for the method called ident, after the
\* attribute the method carries itself, which track_method kept on what it
\* returned, has been expanded on that.
track_impl(attr, item_impl, ident) ==
    LET args == parse_args(attr)
        namespace == Namespace(args, item_impl)
        method == CHOOSE m \in item_impl.items : m.ident = ident
        tracked == track_method(args, method, namespace)
    IN  IF "attr" \in DOMAIN tracked
        THEN track_function(parse_args(tracked.attr), tracked)
        ELSE tracked

\* an input of a signature that is not the receiver: FnArg::Typed with the
\* pattern Pat::Ident
Typed(ident, ty) == [pat |-> "Ident", ident |-> ident, ty |-> ty]

\* a typed input whose pattern is no identifier: Pat::Wild (_) or
\* Pat::Tuple ((a, b))
Pattern(pat, ty) == [pat |-> pat, ident |-> "", ty |-> ty]

\* the impl blocks of tests/track.rs and of the example in the
\* documentation of track_with; a method has its name, whether it takes
\* self, its other inputs and the type it returns
ImplTrackedStruct ==
    [attr |-> [tracker_path |-> "tracker",
               exclude |-> <<"new", ",", " ", "untracked_method">>],
     self_ty |-> "TrackedStruct",
     items |-> {[ident |-> "new", receiver |-> FALSE,
                 inputs |-> <<Typed("tracker", "Arc<Tracker>")>>, output |-> "Self",
                 attr |-> [tracker_path |-> "TRACKER", namespace |-> "TrackedStruct"]],
                [ident |-> "tracked_method", receiver |-> TRUE,
                 inputs |-> <<Typed("arg", "String")>>, output |-> "()"],
                [ident |-> "untracked_method", receiver |-> TRUE,
                 inputs |-> <<>>, output |-> "()"]}]

ImplStaticTrackedStruct ==
    [attr |-> [tracker_path |-> "TRACKER", include_receiver |-> FALSE],
     self_ty |-> "StaticTrackedStruct",
     items |-> {[ident |-> "new", receiver |-> FALSE,
                 inputs |-> <<>>, output |-> "Self"],
                [ident |-> "tracked_method", receiver |-> TRUE,
                 inputs |-> <<Typed("arg", "String")>>, output |-> "()"]}]

ImplTracked ==
    [attr |-> [tracker_path |-> "0", namespace |-> "Tracked"],
     self_ty |-> "TrackedStruct",
     items |-> {[ident |-> "tracked_fn", receiver |-> TRUE,
                 inputs |-> <<Typed("arg", "String")>>, output |-> "()"]}]

\* an impl block with a method that carries an attribute of its own and is
\* not excluded: fn m(&self, s: &str, n: i32) -> i32
ImplBoth ==
    [attr |-> [tracker_path |-> "tracker"],
     self_ty |-> "Both",
     items |-> {[ident |-> "m", receiver |-> TRUE,
                 inputs |-> <<Typed("s", "&str"), Typed("n", "i32")>>, output |-> "i32",
                 attr |-> [tracker_path |-> "TRACKER", namespace |-> "X"]]}]

\* an impl block whose exclude text has no comma
ImplNoComma ==
    [attr |-> [tracker_path |-> "tracker",
               exclude |-> <<"new", " ", "untracked_method">>],
     self_ty |-> "NoComma",
     items |-> {[ident |-> "untracked_method", receiver |-> TRUE,
                 inputs |-> <<>>, output |-> "()"]}]

\* an impl block with inputs that are references or have patterns other
\* than an identifier:
\*   fn w(&self, _: i32, c: String)
\*   fn t(&self, (a, b): (i32, i32), c: String, d: i32) -> i32
\*   fn r(&self, x: &i32, v: &String)
ImplPats ==
    [attr |-> [tracker_path |-> "tracker"],
     self_ty |-> "Pats",
     items |-> {[ident |-> "w", receiver |-> TRUE,
                 inputs |-> <<Pattern("Wild", "i32"), Typed("c", "String")>>,
                 output |-> "()"],
                [ident |-> "t", receiver |-> TRUE,
                 inputs |-> <<Pattern("Tuple", "(i32, i32)"), Typed("c", "String"),
                              Typed("d", "i32")>>,
                 output |-> "i32"],
                [ident |-> "r", receiver |-> TRUE,
                 inputs |-> <<Typed("x", "&i32"), Typed("v", "&String")>>,
                 output |-> "()"]}]

Impls == {ImplTrackedStruct, ImplStaticTrackedStruct, ImplTracked, ImplBoth,
          ImplNoComma, ImplPats}

\* the Tracker a tracker path evaluates to in the tests: the field of the
\* struct holds the Tracker made by the test, TRACKER is the static one
Resolve(tracker_path) ==
    IF tracker_path \in {"self.tracker", "self.0"} THEN "T1" ELSE "T2"

\* how an invocation leaves the statements of the method: with the value of
\* the block, or by a return statement (or a `?`) inside the statements
ReturnPaths == {"tail", "return"}

\* the value of type ()
Unit == 0

\* the types the references in the signatures point to
Referents == {"str", "i32", "String"}

\* <T as ToOwned>::Owned for a reference &T: String for str, T itself for a
\* T that is Clone; a type that is no reference is Clone and stays
Owned(ty) ==
    IF \E T \in Referents : ty = "&" \o T
    THEN LET T == CHOOSE T \in Referents : ty = "&" \o T
         IN  IF T = "str" THEN "String" ELSE T
    ELSE ty

\* the values an input or a result of a type takes in the invocations
ValuesOf(ty) ==
    IF ty = "()" THEN {Unit}
    ELSE IF Owned(ty) = "String" THEN {1, 2}
    ELSE {1}

\* the type a type written in an impl block of self_ty stands for
TypeOf(ty, self_ty) == IF ty = "Self" THEN self_ty ELSE ty

\* x.to_owned() for a value x of type ty: an equal value of the owned type
\* (of what a reference points to, of the same type otherwise)
to_owned(x) == [ty |-> Owned(x.ty), val |-> x.val]

\* the types of elems, separated by commas
RECURSIVE type_list(_)
type_list(elems) ==
    IF Len(elems) = 1 THEN elems[1].ty
    ELSE type_list(SubSeq(elems, 1, Len(elems) - 1)) \o ", " \o elems[Len(elems)].ty

\* the expression (e1, e2, ..): the unit value for no element, the element
\* itself for one (parentheses only), a tuple otherwise
tuple(elems) ==
    IF Len(elems) = 0 THEN [ty |-> "()", val |-> Unit]
    ELSE IF Len(elems) = 1 THEN elems[1]
    ELSE [ty |-> "(" \o type_list(elems) \o ")",
          val |-> [i \in 1..Len(elems) |-> elems[i].val]]

\* Some(Box::new(x))
Boxed(x) == Some(x.ty, x.val)

\* the values an invocation of a method can pass for its inputs
InputsOf(method) ==
    {a \in [1..Len(method.inputs) -> UNION {ValuesOf(method.inputs[i].ty) :
                                              i \in 1..Len(method.inputs)}] :
         \A i \in 1..Len(method.inputs) : a[i] \in ValuesOf(method.inputs[i].ty)}

\* let args = (#(#inputs_cloned),*); for the inputs values of an invocation
let_args(method, values) ==
    LET cloned == cloned_inputs(method.inputs)
    IN  tuple([i \in 1..Len(cloned) |->
                  to_owned([ty |-> method.inputs[cloned[i]].ty,
                            val |-> values[cloned[i]]])])

\* the keys the tests of the impl blocks use: "Namespace::method" for every
\* method, and the keys the generated methods log under
MacroKeys ==
    UNION {{Namespace(parse_args(i.attr), i) \o "::" \o m.ident : m \in i.items}
           \cup UNION {{c.name : c \in
                            {log_calls(track_impl(i.attr, i, m.ident))[n] :
                                n \in 1..Len(log_calls(track_impl(i.attr, i, m.ident)))}} :
                        m \in i.items} :
               i \in Impls}

(***************************************************************************)
(* State.                                                                  *)
(***************************************************************************)
VARIABLES
    calls,     \* per Tracker: Tracker.calls, the HashMap, key -> log identity
               \*   or NoLog
    logs,      \* heap: log identity -> Vec<CallInfo>
    mutex,     \* per Tracker: owner of the Mutex around the HashMap, or
               \*   NoThread
    writer,    \* per log: thread holding the RwLock write guard, or NoThread
    readers,   \* per log: threads holding a RwLock read guard
    pc,        \* per thread: where it is
    frame,     \* per thread: the instrumented method it is running, if any
    trk,       \* per thread: the Tracker its call is made on
    key,       \* per thread: key of the running call / of its Assertion
    item,      \* per thread: the log its call or Assertion refers to
    op,        \* per thread: the running or last method and its argument
    outcome,   \* per thread: result of the last check
    history,   \* ghost, per Tracker and key: call infos logged through this
               \*   Tracker since its last clear
    used,      \* ghost, per Tracker: keys ever passed to its log_call
    snap,      \* ghost, per thread: the log when assert_that returned
    clean,     \* ghost, per thread: nothing was logged since the last clear
               \*   (or since new) when assert_that returned
    seen,      \* ghost, per thread: the log the last check scanned
    untouched  \* ghost, per thread: no log_call and no clear took effect on
               \*   the Tracker since the thread's assert_that returned

vars == <<calls, logs, mutex, writer, readers, pc, frame, trk, key, item, op,
          outcome, history, used, snap, clean, seen, untouched>>

NoOp == [name |-> "none"]
\* no method of an impl block is running
NoFrame == [item |-> [attr |-> [tracker_path |-> ""], self_ty |-> "", items |-> {}],
            ident |-> "", receiver |-> FALSE, path |-> "none", done |-> 0,
            inputs |-> <<>>, args |-> None, returned |-> None,
            entry |-> <<>>]

\* Tracker::new, once for every Tracker: each has a map and a mutex of its
\* own.  keys are the keys the program at hand uses; log identities: one
\* per Tracker and key plus one detached log per thread is all that can be
\* alive at once.
InitOn(keys) ==
    LET ids == 1..(Cardinality(Trackers) * Cardinality(keys) + Cardinality(Threads))
    IN  /\ calls = [tr \in Trackers |-> [k \in keys |-> NoLog]]
        /\ logs = [l \in ids |-> <<>>]
        /\ mutex = [tr \in Trackers |-> NoThread]
        /\ writer = [l \in ids |-> NoThread]
        /\ readers = [l \in ids |-> {}]
        /\ pc = [t \in Threads |-> "idle"]
        /\ frame = [t \in Threads |-> NoFrame]
        /\ trk = [t \in Threads |-> ""]
        /\ key = [t \in Threads |-> ""]
        /\ item = [t \in Threads |-> NoLog]
        /\ op = [t \in Threads |-> NoOp]
        /\ outcome = [t \in Threads |-> Pending]
        /\ history = [tr \in Trackers |-> [k \in keys |-> <<>>]]
        /\ used = [tr \in Trackers |-> {}]
        /\ snap = [t \in Threads |-> <<>>]
        /\ clean = [t \in Threads |-> FALSE]
        /\ seen = [t \in Threads |-> <<>>]
        /\ untouched = [t \in Threads |-> FALSE]

\* the tests that call the Tracker themselves use the keys "f" and "F"
Init == InitOn(Keys)

\* the tests of the instrumented impl blocks use the keys of their methods
InitMacro == InitOn(MacroKeys)

\* every key the maps of the program at hand can hold
AllKeys == DOMAIN calls[TrackerOne]

\* the log identities
LogIds == DOMAIN logs

\* all Trackers share one map (as a static registry would)
self_calls_shared(tr) == TrackerOne

\* self.calls: the map (and its mutex) a method of Tracker tr works on
self_calls(tr) == tr

(***************************************************************************)
(* Arc reference counting: a log is alive while a map or an Assertion /    *)
(* MetaAssertion holds an Arc to it; its Vec is freed with the last Arc.   *)
(***************************************************************************)
\* pcs at which a thread owns an Assertion or MetaAssertion; at "finished"
\* it is at the end of a check that consumes self or panics: the read guard
\* is dropped, self (and its Arc) not yet
Holding == {"assertion", "check_called", "reading", "meta", "finished"}

\* a log kept alive by the maps only, as if the handles held Weak pointers
AliveInMaps(cs, its, pcs) ==
    {cs[tr][k] : tr \in Trackers, k \in AllKeys}

Alive(cs, its, pcs) ==
    {cs[tr][k] : tr \in Trackers, k \in AllKeys}
    \cup {its[t] : t \in {u \in Threads : pcs[u] \in Holding}}

\* drop: the heap with the logs that lost their last Arc freed
Drop(lg, cs, its, pcs) ==
    [l \in LogIds |-> IF l \in Alive(cs, its, pcs) THEN lg[l] ELSE <<>>]

\* Arc::new(RwLock::new(..)): a fresh identity
NewLog == CHOOSE l \in LogIds :
              /\ l \notin Alive(calls, item, pc)
              /\ \A m \in LogIds : m < l => m \in Alive(calls, item, pc)

RECURSIVE SumLen(_, _)
SumLen(lg, S) ==
    IF S = {} THEN 0
    ELSE LET l == CHOOSE m \in S : TRUE
         IN  Len(lg[l]) + SumLen(lg, S \ {l})

\* a lock that excludes nobody
MutexIgnored(m) == TRUE

\* Mutex::lock on the mutex of map m can return when nobody holds it
MutexFree(m) == mutex[m] = NoThread

\* an RwLock whose write does not wait for the readers to leave
CanWriteAmongReaders(l) == writer[l] = NoThread

\* RwLock::write can return when there is no reader and no writer
CanWrite(l) == writer[l] = NoThread /\ readers[l] = {}

\* a writer has called RwLock::write on log l and waits in it for the
\* readers of l to leave
WriterWaits(l) == \E u \in Threads : pc[u] = "log_call_waiting" /\ item[u] = l

\* an RwLock that lets readers pass a waiting writer
CanReadPastWriter(l) == writer[l] = NoThread

\* RwLock::read of parking_lot can return when no writer holds the lock and
\* none is waiting for it (readers queue behind a waiting writer)
CanRead(l) == writer[l] = NoThread /\ ~WriterWaits(l)

\* drop of the RwLockReadGuard at the end of a check's block, or by the
\* unwinding of its panic
read_guard_drop(rs, t) == rs \ {t}

\* the methods of Assertion and of MetaAssertion
AssertionMethods == {"was_called_once", "was_called_times", "wasnt_called"}
MetaMethods == {"with", "not_with", "and_returned"}

\* the checks a test may make, given the counts ns it passes to
\* was_called_times and the values xs it passes to the MetaAssertion methods
Ops(ns, xs) ==
    {[name |-> "was_called_once", arg |-> 0], [name |-> "wasnt_called", arg |-> 0]}
    \cup {[name |-> "was_called_times", arg |-> n] : n \in ns}
    \cup {[name |-> m, arg |-> x] : m \in MetaMethods, x \in xs}

\* checks made in the single-thread specification
SeqOps == Ops(0..MaxTimes, Expected)
\* checks made in the concurrent specification
ConcOps == Ops({2}, {Some("i32", 1)})
\* keys used, call infos logged and checks made in the progress
\* specification
LiveKeys == {"f"}
LiveInfos == {CallInfo(Some("i32", 1), Some("String", 1))}
LiveOps == {[name |-> "was_called_once", arg |-> 0],
            [name |-> "with", arg |-> Some("i32", 1)]}

\* a thread's locals once its call has returned and its values are dropped
Forget(t) ==
    /\ trk' = [trk EXCEPT ![t] = ""]
    /\ key' = [key EXCEPT ![t] = ""]
    /\ op' = [op EXCEPT ![t] = NoOp]
    /\ outcome' = [outcome EXCEPT ![t] = Pending]
    /\ snap' = [snap EXCEPT ![t] = <<>>]
    /\ clean' = [clean EXCEPT ![t] = FALSE]
    /\ seen' = [seen EXCEPT ![t] = <<>>]

\* the call of thread t returns to its caller: to the generated method that
\* made it, which has one log_call less to make, or to the test
Return(t) ==
    /\ pc' = [pc EXCEPT ![t] = IF frame[t] = NoFrame THEN "idle" ELSE "invoked"]
    /\ frame' = [frame EXCEPT ![t] =
                    IF @ = NoFrame THEN @ ELSE [@ EXCEPT !.done = @ + 1]]

\* a log_call or a clear takes effect on Tracker tr
Touch(tr) == [u \in Threads |-> untouched[u] /\ trk[u] # tr]

\* the map thread t's running call works on
Map(t) == self_calls(trk[t])

\* the method track_with made of the method thread t is running
Generated(t) == track_impl(frame[t].item.attr, frame[t].item, frame[t].ident)

\* the records thread t is still going to push: the log_calls its generated
\* method has not made yet, or the log_call it was called for and has not
\* pushed yet
Pending_log_calls_of(u) ==
    IF frame[u] # NoFrame
    THEN IF frame[u].path = "tail"
         THEN Len(log_calls(Generated(u))) - frame[u].done
                  - (IF pc[u] = "log_call_pushed" THEN 1 ELSE 0)
         ELSE 0
    ELSE IF \/ pc[u] = "called" /\ op[u].name = "log_call"
            \/ pc[u] \in {"log_call_locked", "log_call_waiting", "log_call_writing"}
         THEN 1 ELSE 0

RECURSIVE Pending_log_calls(_)
Pending_log_calls(S) ==
    IF S = {} THEN 0
    ELSE LET u == CHOOSE v \in S : TRUE
         IN  Pending_log_calls_of(u) + Pending_log_calls(S \ {u})

\* the bound of the model leaves room for n more records
RoomFor(n, max) == SumLen(logs, LogIds) + Pending_log_calls(Threads) + n <= max

\* the bound of the model leaves room for one more record
Room(max) == RoomFor(1, max)

\* thread t calls method o of Tracker tr for key k: the call is made now, or
\* was made earlier and has been waiting for the mutex since
Begins(t, o, tr, k) ==
    \/ pc[t] = "idle"
    \/ pc[t] = "called" /\ op[t] = o /\ trk[t] = tr /\ key[t] = k

\* thread t calls method o of Tracker tr for key k; its first statement,
\* self.calls.lock(), has not returned yet
call(t, tr, k, o, max) ==
    /\ pc[t] = "idle"
    /\ o.name = "log_call" => Room(max)
    /\ pc' = [pc EXCEPT ![t] = "called"]
    /\ trk' = [trk EXCEPT ![t] = tr]
    /\ key' = [key EXCEPT ![t] = k]
    /\ op' = [op EXCEPT ![t] = o]
    /\ UNCHANGED <<calls, logs, mutex, writer, readers, item, outcome,
                   history, used, snap, clean, seen, untouched>>
    /\ UNCHANGED frame

\* thread t calls check o on its Assertion or MetaAssertion; its first
\* statement, self.item.read(), has not returned yet
check_call(t, o) ==
    /\ \/ pc[t] = "assertion" /\ o.name \in AssertionMethods
       \/ pc[t] = "meta" /\ o.name \in MetaMethods
    /\ pc' = [pc EXCEPT ![t] = "check_called"]
    /\ op' = [op EXCEPT ![t] = o]
    /\ outcome' = [outcome EXCEPT ![t] = Pending]
    /\ seen' = [seen EXCEPT ![t] = <<>>]
    /\ UNCHANGED <<calls, logs, mutex, writer, readers, trk, key, item,
                   history, used, snap, clean, untouched>>
    /\ UNCHANGED frame

(***************************************************************************)
(* Tracker::log_call                                                       *)
(***************************************************************************)
\* let mut calls = self.calls.lock(); calls.get(&key)
log_call_lock(t, tr, k, call_info, max) ==
    /\ Begins(t, [name |-> "log_call", arg |-> call_info], tr, k)
    /\ MutexFree(self_calls(tr))
    /\ pc[t] = "idle" => Room(max)
    /\ mutex' = [mutex EXCEPT ![self_calls(tr)] = t]
    /\ trk' = [trk EXCEPT ![t] = tr]
    /\ key' = [key EXCEPT ![t] = k]
    /\ op' = [op EXCEPT ![t] = [name |-> "log_call", arg |-> call_info]]
    /\ item' = [item EXCEPT ![t] = get(calls[self_calls(tr)], k)]
    /\ pc' = [pc EXCEPT ![t] = "log_call_locked"]
    /\ UNCHANGED <<calls, logs, writer, readers, outcome, history, used,
                   snap, clean, seen>>
    /\ UNCHANGED untouched
    /\ UNCHANGED frame

\* Some(call_infos): call_infos.write() is called: it returns the write
\* guard when the log has no reader, and otherwise waits for the readers to
\* leave, letting no new reader in
log_call_write(t) ==
    /\ pc[t] = "log_call_locked"
    /\ item[t] # NoLog
    /\ writer' = [writer EXCEPT ![item[t]] = IF CanWrite(item[t]) THEN t ELSE @]
    /\ pc' = [pc EXCEPT ![t] = IF CanWrite(item[t]) THEN "log_call_writing"
                                ELSE "log_call_waiting"]
    /\ UNCHANGED <<calls, logs, mutex, readers, trk, key, item, op, outcome,
                   history, used, snap, clean, seen>>
    /\ UNCHANGED untouched
    /\ UNCHANGED frame

\* the last reader has left: call_infos.write() returns the write guard
log_call_write_granted(t) ==
    /\ pc[t] = "log_call_waiting"
    /\ CanWrite(item[t])
    /\ writer' = [writer EXCEPT ![item[t]] = t]
    /\ pc' = [pc EXCEPT ![t] = "log_call_writing"]
    /\ UNCHANGED <<calls, logs, mutex, readers, trk, key, item, op, outcome,
                   history, used, snap, clean, seen>>
    /\ UNCHANGED untouched
    /\ UNCHANGED frame

\* call_infos.push(call_info); the write guard is dropped at the end of
\* the if-let body, while the guard of the mutex is still held
log_call_push(t) ==
    /\ pc[t] = "log_call_writing"
    /\ logs' = [logs EXCEPT ![item[t]] = push(@, op[t].arg)]
    /\ history' = [history EXCEPT ![trk[t]][key[t]] = Append(@, op[t].arg)]
    /\ used' = [used EXCEPT ![trk[t]] = @ \cup {key[t]}]
    /\ writer' = [writer EXCEPT ![item[t]] = NoThread]
    /\ pc' = [pc EXCEPT ![t] = "log_call_pushed"]
    /\ item' = [item EXCEPT ![t] = NoLog]
    /\ UNCHANGED <<calls, mutex, readers, trk, key, op, outcome, snap, clean,
                   seen, frame>>
    /\ untouched' = Touch(trk[t])

\* end of log_call after the push: the guard of the mutex is dropped and
\* the call returns
log_call_unlock(t) ==
    /\ pc[t] = "log_call_pushed"
    /\ mutex' = [mutex EXCEPT ![Map(t)] = NoThread]
    /\ Return(t)
    /\ Forget(t)
    /\ UNCHANGED <<calls, logs, writer, readers, item, history, used,
                   untouched>>

\* None: calls.insert(key, Arc::new(RwLock::new(vec![call_info])));
\* insert replaces (and drops) whatever the map held for the key; the guard
\* of the mutex is dropped and the call returns
log_call_insert(t) ==
    /\ pc[t] = "log_call_locked"
    /\ item[t] = NoLog
    /\ calls' = [calls EXCEPT ![Map(t)][key[t]] = NewLog]
    /\ item' = [item EXCEPT ![t] = NoLog]
    /\ Return(t)
    /\ logs' = Drop([logs EXCEPT ![NewLog] = <<op[t].arg>>], calls', item', pc')
    /\ history' = [history EXCEPT ![trk[t]][key[t]] = Append(@, op[t].arg)]
    /\ used' = [used EXCEPT ![trk[t]] = @ \cup {key[t]}]
    /\ mutex' = [mutex EXCEPT ![Map(t)] = NoThread]
    /\ Forget(t)
    /\ UNCHANGED <<writer, readers>>
    /\ untouched' = Touch(trk[t])

(***************************************************************************)
(* Tracker::assert_that                                                    *)
(***************************************************************************)
\* let calls = self.calls.lock();
assert_that_lock(t, tr, k) ==
    /\ Begins(t, [name |-> "assert_that", arg |-> 0], tr, k)
    /\ MutexFree(self_calls(tr))
    /\ mutex' = [mutex EXCEPT ![self_calls(tr)] = t]
    /\ trk' = [trk EXCEPT ![t] = tr]
    /\ key' = [key EXCEPT ![t] = k]
    /\ op' = [op EXCEPT ![t] = [name |-> "assert_that", arg |-> 0]]
    /\ pc' = [pc EXCEPT ![t] = "assert_that_locked"]
    /\ UNCHANGED <<calls, logs, writer, readers, item, outcome, history,
                   used, snap, clean, seen>>
    /\ UNCHANGED untouched
    /\ UNCHANGED frame

\* an assert_that that registers the empty log it creates for a new key
assert_that_registering(t) ==
    /\ pc[t] = "assert_that_locked"
    /\ item' = [item EXCEPT ![t] =
                   IF get(calls[Map(t)], key[t]) # NoLog
                   THEN get(calls[Map(t)], key[t]) ELSE NewLog]
    /\ calls' = [calls EXCEPT ![Map(t)][key[t]] = item'[t]]
    /\ mutex' = [mutex EXCEPT ![Map(t)] = NoThread]
    /\ pc' = [pc EXCEPT ![t] = "assertion"]
    /\ snap' = [snap EXCEPT ![t] = logs[item'[t]]]
    /\ clean' = [clean EXCEPT ![t] = \A k \in AllKeys : history[trk[t]][k] = <<>>]
    /\ UNCHANGED <<logs, writer, readers, trk, key, op, outcome, history,
                   used, seen>>
    /\ untouched' = [untouched EXCEPT ![t] = TRUE]
    /\ UNCHANGED frame

\* the Arc registered for the key, cloned, or a new empty log that is not
\* put into the map; Assertion { item, key } is returned, the guard dropped
assert_that(t) ==
    /\ pc[t] = "assert_that_locked"
    /\ item' = [item EXCEPT ![t] =
                   IF get(calls[Map(t)], key[t]) # NoLog
                   THEN get(calls[Map(t)], key[t]) ELSE NewLog]
    /\ mutex' = [mutex EXCEPT ![Map(t)] = NoThread]
    /\ pc' = [pc EXCEPT ![t] = "assertion"]
    /\ snap' = [snap EXCEPT ![t] = logs[item'[t]]]
    /\ clean' = [clean EXCEPT ![t] = \A k \in AllKeys : history[trk[t]][k] = <<>>]
    /\ UNCHANGED <<calls, logs, writer, readers, trk, key, op, outcome,
                   history, used, seen>>
    /\ untouched' = [untouched EXCEPT ![t] = TRUE]
    /\ UNCHANGED frame

(***************************************************************************)
(* Tracker::clear                                                          *)
(***************************************************************************)
\* self.calls.lock()
clear_lock(t, tr) ==
    /\ Begins(t, [name |-> "clear", arg |-> 0], tr, "")
    /\ MutexFree(self_calls(tr))
    /\ mutex' = [mutex EXCEPT ![self_calls(tr)] = t]
    /\ trk' = [trk EXCEPT ![t] = tr]
    /\ op' = [op EXCEPT ![t] = [name |-> "clear", arg |-> 0]]
    /\ pc' = [pc EXCEPT ![t] = "clear_locked"]
    /\ UNCHANGED <<calls, logs, writer, readers, key, item, outcome, history,
                   used, snap, clean, seen>>
    /\ UNCHANGED untouched
    /\ UNCHANGED frame

\* a clear that removes one entry only
ClearFirst(map) == [map EXCEPT !["f"] = NoLog]

\* HashMap::clear: every entry is removed and its Arc dropped
ClearMap(map) == [k \in AllKeys |-> NoLog]

\* a clear that also empties the Vecs of the logs it unregisters
clear_emptying(t) ==
    /\ pc[t] = "clear_locked"
    /\ calls' = [calls EXCEPT ![Map(t)] = ClearMap(@)]
    /\ logs' = Drop([l \in LogIds |->
                         IF \E k \in AllKeys : calls[Map(t)][k] = l
                         THEN <<>> ELSE logs[l]],
                    calls', item, pc)
    /\ history' = [history EXCEPT ![trk[t]] = [k \in AllKeys |-> <<>>]]
    /\ mutex' = [mutex EXCEPT ![Map(t)] = NoThread]
    /\ pc' = [pc EXCEPT ![t] = "idle"]
    /\ Forget(t)
    /\ UNCHANGED frame
    /\ UNCHANGED <<writer, readers, item, used>>
    /\ untouched' = Touch(trk[t])

\* .clear(); the guard is dropped at the end of the statement
clear(t) ==
    /\ pc[t] = "clear_locked"
    /\ calls' = [calls EXCEPT ![Map(t)] = ClearMap(@)]
    /\ logs' = Drop(logs, calls', item, pc)
    /\ history' = [history EXCEPT ![trk[t]] = [k \in AllKeys |-> <<>>]]
    /\ mutex' = [mutex EXCEPT ![Map(t)] = NoThread]
    /\ pc' = [pc EXCEPT ![t] = "idle"]
    /\ Forget(t)
    /\ UNCHANGED frame
    /\ UNCHANGED <<writer, readers, item, used>>
    /\ untouched' = Touch(trk[t])

(***************************************************************************)
(* Tracker::print_debug                                                    *)
(***************************************************************************)
\* let calls = self.calls.lock();
print_debug_lock(t, tr, k) ==
    /\ Begins(t, [name |-> "print_debug", arg |-> 0], tr, k)
    /\ MutexFree(self_calls(tr))
    /\ mutex' = [mutex EXCEPT ![self_calls(tr)] = t]
    /\ trk' = [trk EXCEPT ![t] = tr]
    /\ key' = [key EXCEPT ![t] = k]
    /\ op' = [op EXCEPT ![t] = [name |-> "print_debug", arg |-> 0]]
    /\ pc' = [pc EXCEPT ![t] = "print_debug_locked"]
    /\ UNCHANGED <<calls, logs, writer, readers, item, outcome, history,
                   used, snap, clean, seen>>
    /\ UNCHANGED untouched
    /\ UNCHANGED frame

\* if let Some(calls) = calls.get(&key) { println!("{:?}", calls) }: the
\* Debug of the RwLock does not wait for the lock and changes nothing; the
\* guard of the mutex is dropped
print_debug(t) ==
    /\ pc[t] = "print_debug_locked"
    /\ mutex' = [mutex EXCEPT ![Map(t)] = NoThread]
    /\ pc' = [pc EXCEPT ![t] = "idle"]
    /\ Forget(t)
    /\ UNCHANGED frame
    /\ UNCHANGED <<calls, logs, writer, readers, item, history, used>>
    /\ untouched' = [untouched EXCEPT ![t] = FALSE]

(***************************************************************************)
(* Methods of the impl blocks under track_with                             *)
(***************************************************************************)
\* thread t invokes a method of an impl block with the inputs values: in a
\* generated method let args = (..); then the statements of the method,
\* which end with the value r of the block or return r from the method
invoke(t, item_impl, method, path, values, r, max) ==
    /\ pc[t] = "idle"
    /\ path = "tail" =>
           RoomFor(Len(log_calls(track_impl(item_impl.attr, item_impl, method.ident))), max)
    /\ pc' = [pc EXCEPT ![t] = "invoked"]
    /\ frame' = [frame EXCEPT ![t] =
                    [item |-> item_impl, ident |-> method.ident,
                     receiver |-> method.receiver, path |-> path, done |-> 0,
                     inputs |-> values,
                     args |-> IF log_calls(track_impl(item_impl.attr, item_impl,
                                                      method.ident)) # <<>>
                              THEN Boxed(let_args(method, values)) ELSE None,
                     returned |-> [ty |-> TypeOf(method.output, item_impl.self_ty),
                                   val |-> r],
                     entry |-> [tr \in Trackers |->
                                   [k \in AllKeys |->
                                       IF calls[tr][k] = NoLog THEN <<>>
                                       ELSE logs[calls[tr][k]]]]]]
    /\ UNCHANGED <<calls, logs, mutex, writer, readers, trk, key, item, op,
                   outcome, history, used, snap, clean, seen, untouched>>

\* the statements inside gave the value `returned`: the next
\* tracker.log_call(name, CallInfo { arguments: Some(Box::new(args)),
\* returned: Some(Box::new(returned.to_owned())) }) of the generated body is
\* called
generated_log_call(t) ==
    /\ pc[t] = "invoked"
    /\ frame[t].path = "tail"
    /\ frame[t].done < Len(log_calls(Generated(t)))
    /\ LET c == log_calls(Generated(t))[frame[t].done + 1]
       IN  /\ trk' = [trk EXCEPT ![t] = Resolve(c.tracker_path)]
           /\ key' = [key EXCEPT ![t] = c.name]
    /\ pc' = [pc EXCEPT ![t] = "called"]
    /\ op' = [op EXCEPT ![t] =
                 [name |-> "log_call",
                  arg |-> CallInfo(frame[t].args,
                                   Boxed(to_owned(frame[t].returned)))]]
    /\ UNCHANGED <<calls, logs, mutex, writer, readers, frame, item, outcome,
                   history, used, snap, clean, seen, untouched>>

\* the method returns to its caller: its statements returned from it, or
\* every log_call of its body (there is none in a method left as it was)
\* has returned
invoke_return(t) ==
    /\ pc[t] = "invoked"
    /\ frame[t].path = "return" \/ frame[t].done = Len(log_calls(Generated(t)))
    /\ pc' = [pc EXCEPT ![t] = "idle"]
    /\ frame' = [frame EXCEPT ![t] = NoFrame]
    /\ Forget(t)
    /\ UNCHANGED <<calls, logs, mutex, writer, readers, item, history, used,
                   untouched>>

(***************************************************************************)
(* Assertion and MetaAssertion                                             *)
(***************************************************************************)
\* let item = self.item.read(); first statement of every check
read(t, o) ==
    /\ \/ pc[t] = "assertion" /\ o.name \in AssertionMethods
       \/ pc[t] = "meta" /\ o.name \in MetaMethods
       \/ pc[t] = "check_called" /\ op[t] = o
    /\ CanRead(item[t])
    /\ readers' = [readers EXCEPT ![item[t]] = @ \cup {t}]
    /\ op' = [op EXCEPT ![t] = o]
    /\ outcome' = [outcome EXCEPT ![t] = Pending]
    /\ seen' = [seen EXCEPT ![t] = <<>>]
    /\ pc' = [pc EXCEPT ![t] = "reading"]
    /\ UNCHANGED <<calls, logs, mutex, writer, trk, key, item, history, used,
                   snap, clean>>
    /\ UNCHANGED untouched
    /\ UNCHANGED frame

\* The rest of a check up to the drop of the guard: the assertions run on
\* the Vec behind the guard, the guard is dropped (also by the unwinding of
\* a panic).  If next = "meta" and the check passed, the thread goes on
\* with a MetaAssertion on the same item; otherwise self, which the check
\* consumes, is dropped after the guard.
Check(t, name, result, next) ==
    /\ pc[t] = "reading"
    /\ op[t].name = name
    /\ outcome' = [outcome EXCEPT ![t] = result]
    /\ seen' = [seen EXCEPT ![t] = logs[item[t]]]
    /\ readers' = [readers EXCEPT ![item[t]] = read_guard_drop(@, t)]
    /\ pc' = [pc EXCEPT ![t] = IF result = Ok THEN next ELSE "finished"]
    /\ UNCHANGED <<calls, logs, mutex, writer, trk, key, item, op, history,
                   used, snap, clean>>
    /\ UNCHANGED untouched
    /\ UNCHANGED frame

WasCalledOnce(t) ==
    Check(t, "was_called_once", was_called_once(logs[item[t]]), "meta")

WasCalledTimes(t) ==
    Check(t, "was_called_times", was_called_times(logs[item[t]], op[t].arg), "meta")

WasntCalled(t) ==
    Check(t, "wasnt_called", wasnt_called(logs[item[t]]), "finished")

With(t) ==
    Check(t, "with", with(logs[item[t]], op[t].arg), "meta")

NotWith(t) ==
    Check(t, "not_with", not_with(logs[item[t]], op[t].arg), "meta")

AndReturned(t) ==
    Check(t, "and_returned", and_returned(logs[item[t]], op[t].arg), "finished")

\* drop of self (and of its Arc) at the end of a check that consumes it or
\* panics, or of the Assertion / MetaAssertion at the end of the chain
drop(t) ==
    /\ pc[t] \in {"assertion", "meta", "finished"}
    /\ pc' = [pc EXCEPT ![t] = "idle"]
    /\ item' = [item EXCEPT ![t] = NoLog]
    /\ logs' = Drop(logs, calls, item', pc')
    /\ Forget(t)
    /\ UNCHANGED frame
    /\ UNCHANGED <<calls, mutex, writer, readers, history, used>>
    /\ untouched' = [untouched EXCEPT ![t] = FALSE]

(***************************************************************************)
(* Specifications.                                                         *)
(***************************************************************************)
\* one step of thread t on the Trackers trs with the keys ks; infos are the
\* call infos it may log, ops the checks it may make (its wait in
\* RwLock::write, which takes a check of another thread, is not among them)
Step(t, trs, ks, infos, max, ops) ==
    \/ \E tr \in trs, k \in ks, call_info \in infos :
           log_call_lock(t, tr, k, call_info, max)
    \/ log_call_write(t)
    \/ log_call_push(t)
    \/ log_call_unlock(t)
    \/ log_call_insert(t)
    \/ \E tr \in trs, k \in ks : assert_that_lock(t, tr, k)
    \/ assert_that(t)
    \/ \E tr \in trs : clear_lock(t, tr)
    \/ clear(t)
    \/ \E tr \in trs, k \in ks : print_debug_lock(t, tr, k)
    \/ print_debug(t)
    \/ \E o \in ops : read(t, o)
    \/ WasCalledOnce(t)
    \/ WasCalledTimes(t)
    \/ WasntCalled(t)
    \/ With(t)
    \/ NotWith(t)
    \/ AndReturned(t)
    \/ drop(t)

\* several threads share one Tracker; a log_call of one may have to wait
\* for the check of another
Next ==
    \E t \in ConcThreads :
        \/ Step(t, {TrackerOne}, Keys, ConcInfos, MaxCalls, ConcOps)
        \/ log_call_write_granted(t)

Spec == Init /\ [][Next]_vars

\* one thread uses the Tracker, with every kind of call info
NextSeq == Step(MainThread, {TrackerOne}, Keys, SeqInfos, MaxCallsSeq, SeqOps)

SpecSeq == Init /\ [][NextSeq]_vars

\* one thread uses two Trackers
NextTwo == Step(MainThread, Trackers, Keys, ConcInfos, MaxCalls, ConcOps)

SpecTwo == Init /\ [][NextTwo]_vars

\* the checks made on the Trackers of the instrumented impl blocks
MacroOps == {[name |-> "was_called_once", arg |-> 0],
             [name |-> "wasnt_called", arg |-> 0]}

\* one thread invokes the methods of the impl blocks and inspects the
\* Trackers they log to
NextMacro ==
    \/ \E item_impl \in Impls, path \in ReturnPaths :
           \E method \in item_impl.items :
               \E values \in InputsOf(method),
                  r \in ValuesOf(TypeOf(method.output, item_impl.self_ty)) :
                   invoke(MainThread, item_impl, method, path, values, r,
                          MaxCallsMacro)
    \/ generated_log_call(MainThread)
    \/ invoke_return(MainThread)
    \/ /\ pc[MainThread] = "called"
       /\ log_call_lock(MainThread, trk[MainThread], key[MainThread],
                        op[MainThread].arg, MaxCallsMacro)
    \/ log_call_write(MainThread)
    \/ log_call_push(MainThread)
    \/ log_call_unlock(MainThread)
    \/ log_call_insert(MainThread)
    \/ \E tr \in Trackers, k \in MacroKeys : assert_that_lock(MainThread, tr, k)
    \/ assert_that(MainThread)
    \/ \E o \in MacroOps : read(MainThread, o)
    \/ WasCalledOnce(MainThread)
    \/ WasntCalled(MainThread)
    \/ drop(MainThread)

SpecMacro == InitMacro /\ [][NextMacro]_vars

\* the methods of Tracker a thread may call in the progress specification
LiveCalls ==
    {[name |-> "log_call", arg |-> call_info] : call_info \in LiveInfos}
    \cup {[name |-> m, arg |-> 0] : m \in {"assert_that", "clear", "print_debug"}}

\* the main thread calls every method; the other threads, which only
\* inspect the Tracker, call assert_that and print_debug
LiveCallsOf(t) ==
    IF t = MainThread THEN LiveCalls
    ELSE {o \in LiveCalls : o.name \in {"assert_that", "print_debug"}}

\* thread t, waiting in a call for the mutex or the lock of a log, gets it
Acquires(t) ==
    \/ /\ pc[t] = "called"
       /\ \/ log_call_lock(t, trk[t], key[t], op[t].arg, MaxCallsLive)
          \/ assert_that_lock(t, trk[t], key[t])
          \/ clear_lock(t, trk[t])
          \/ print_debug_lock(t, trk[t], key[t])
    \/ log_call_write_granted(t)
    \/ pc[t] = "check_called" /\ read(t, op[t])

\* thread t, holding what it needs, runs the rest of its call (of the
\* checks, those of LiveOps) up to its next wait
Returns(t) ==
    \/ log_call_write(t)
    \/ log_call_push(t)
    \/ log_call_unlock(t)
    \/ log_call_insert(t)
    \/ assert_that(t)
    \/ clear(t)
    \/ print_debug(t)
    \/ WasCalledOnce(t)
    \/ With(t)
    \/ pc[t] = "finished" /\ drop(t)

\* three threads, one of them logging, whose calls are seen from the call
\* to the return
NextLive ==
    \E t \in Threads :
        \/ \E k \in LiveKeys, o \in LiveCallsOf(t) :
               call(t, TrackerOne, IF o.name = "clear" THEN "" ELSE k, o, MaxCallsLive)
        \/ \E o \in LiveOps : check_call(t, o)
        \/ Acquires(t)
        \/ Returns(t)
        \/ drop(t)

\* The scheduler runs every thread that can take a step; the Mutex and the
\* RwLock of parking_lot hand a lock that is free again and again to every
\* thread that waits for it.
SpecLive ==
    /\ Init /\ [][NextLive]_vars
    /\ \A t \in Threads : WF_vars(Returns(t)) /\ SF_vars(Acquires(t))

(***************************************************************************)
(* Properties.                                                             *)
(***************************************************************************)
\* the call infos logged since the last clear through the Tracker of thread
\* t for the key of thread t
Logged(t) == history[trk[t]][key[t]]

\* the log registered in Tracker tr for key k, empty if there is none
Registered(tr, k) == IF calls[tr][k] = NoLog THEN <<>> ELSE logs[calls[tr][k]]

\* thread t has run a check named m and its outcome is known
Checked(t, m) == op[t].name = m /\ outcome[t] # Pending

\* some record of v carries under `field` a payload of x's type equal to x
SomeRecord(v, field, x) == \E i \in 1..Len(v) : v[i][field] = x

IsPrefix(s, v) == Len(s) <= Len(v) /\ SubSeq(v, 1, Len(s)) = s

\* the outcome of check o on the Vec v
Eval(o, v) ==
    CASE o.name = "was_called_once" -> was_called_once(v)
      [] o.name = "was_called_times" -> was_called_times(v, o.arg)
      [] o.name = "wasnt_called" -> wasnt_called(v)
      [] o.name = "with" -> with(v, o.arg)
      [] o.name = "not_with" -> not_with(v, o.arg)
      [] o.name = "and_returned" -> and_returned(v, o.arg)

\* C1: after N >= 1 log_calls for key k since new or the last clear, in any
\* order with log_calls for other keys, assert_that(k).was_called_times(n)
\* succeeds exactly when n = N.
C1_CallCounting ==
    \A t \in Threads :
        (Checked(t, "was_called_times") /\ Len(Logged(t)) >= 1)
            => (outcome[t] = Ok <=> op[t].arg = Len(Logged(t)))

\* two calls of one key counted, with a call of the other key logged too
C1_Witness ==
    \E t \in Threads :
        /\ Checked(t, "was_called_times") /\ outcome[t] = Ok /\ op[t].arg = 2
        /\ Logged(t)[1] = Logged(t)[2]
        /\ \E k \in Keys : k # key[t] /\ history[trk[t]][k] # <<>>

\* C2: was_called_once succeeds, and yields a MetaAssertion, exactly when
\* the log holds one record at the time the check runs; it fails for no
\* record and for two or more.
C2_WasCalledOnce ==
    \A t \in Threads :
        Checked(t, "was_called_once")
            => /\ outcome[t] = Ok <=> Len(seen[t]) = 1
               /\ pc[t] = (IF Len(seen[t]) = 1 THEN "meta" ELSE "finished")

\* was_called_once has failed on a log of two records
C2_Witness ==
    \E t \in Threads :
        Checked(t, "was_called_once") /\ Len(seen[t]) = 2 /\ outcome[t] # Ok

\* C3: for a key never passed to log_call, assert_that gives an Assertion
\* (on an empty log) and wasnt_called succeeds; wasnt_called fails whenever
\* the log it scans holds a record.
C3_WasntCalled ==
    \A t \in Threads :
        /\ (pc[t] = "assertion" /\ key[t] \notin used[trk[t]])
               => (item[t] # NoLog /\ logs[item[t]] = <<>>)
        /\ (Checked(t, "wasnt_called") /\ key[t] \notin used[trk[t]]) => outcome[t] = Ok
        /\ (Checked(t, "wasnt_called") /\ Len(seen[t]) >= 1) => outcome[t] # Ok

\* wasnt_called has passed for a key never logged while another key was
\* logged, and (other thread) has failed on a log of one record
C3_Witness ==
    \E t, u \in Threads :
        /\ Checked(t, "wasnt_called") /\ key[t] \notin used[trk[t]] /\ used[trk[t]] # {}
        /\ outcome[t] = Ok
        /\ Checked(u, "wasnt_called") /\ Len(seen[u]) = 1 /\ outcome[u] # Ok

\* C4: with(x) succeeds exactly when some record of the log has an
\* argument payload of x's type equal to x, whatever else the log holds
\* (records without arguments, arguments of another type).
C4_WithExistential ==
    \A t \in Threads :
        Checked(t, "with")
            => (outcome[t] = Ok <=> SomeRecord(seen[t], "arguments", op[t].arg))

\* C5: and_returned(v) succeeds exactly when some record of the log has a
\* return payload of v's type equal to v, at any position.
C5_AndReturnedExistential ==
    \A t \in Threads :
        Checked(t, "and_returned")
            => (outcome[t] = Ok <=> SomeRecord(seen[t], "returned", op[t].arg))

\* C6: not_with(x) succeeds exactly when no record of the log has an
\* argument payload of x's type equal to x, and on a non-empty log exactly
\* one of with(x) and not_with(x) succeeds.
C6_NotWithNegation ==
    \A t \in Threads :
        Checked(t, "not_with")
            => /\ outcome[t] = Ok <=> ~SomeRecord(seen[t], "arguments", op[t].arg)
               /\ seen[t] # <<>>
                      => ((outcome[t] = Ok) # (with(seen[t], op[t].arg) = Ok))

\* C7: a log_call for key A leaves what is registered for every other key B
\* as it is: the same log, with the same records in the same order.
C7_KeyIsolation ==
    [][\A t \in Threads, tr \in Trackers, B \in AllKeys :
          ((log_call_push(t) \/ log_call_insert(t)) /\ <<trk[t], key[t]>> # <<tr, B>>)
              => (calls'[tr][B] = calls[tr][B] /\ Registered(tr, B)' = Registered(tr, B))]_vars

\* both keys hold records, not the same ones
C7_Witness ==
    /\ Registered(TrackerOne, "f") # <<>>
    /\ Registered(TrackerOne, "F") # <<>>
    /\ Registered(TrackerOne, "f") # Registered(TrackerOne, "F")

\* C8: under every interleaving the map holds one log per key, shared with
\* no other key, and the log registered for k holds exactly the records of
\* the log_calls for k that took effect since the last clear, in order.
C8_NoLostRecord ==
    \A tr \in Trackers :
        /\ \A k \in AllKeys : Registered(tr, k) = history[tr][k]
        /\ \A k \in AllKeys : calls[tr][k] = NoLog <=> history[tr][k] = <<>>
        /\ \A k1, k2 \in AllKeys :
               (k1 # k2 /\ calls[tr][k1] # NoLog) => calls[tr][k1] # calls[tr][k2]

\* a thread is about to append a second record to the log of a key while
\* the other thread holds an Assertion on that same log
C8_Witness ==
    \E t, u \in Threads :
        /\ pc[t] = "log_call_writing"
        /\ pc[u] \in Holding /\ item[u] = item[t]
        /\ key[t] \in used[trk[t]]
        /\ Len(Logged(t)) = 1

\* C9 as stated: every check of a chain sees the log as it was when
\* assert_that returned, so its outcome is the one that log gives.
C9_SnapshotAtAssertThat ==
    \A t \in Threads :
        (op[t].name \in AssertionMethods \cup MetaMethods /\ outcome[t] # Pending)
            => outcome[t] = Eval(op[t], snap[t])

\* C9 amended: every check of a chain scans the log its Assertion is bound
\* to as it is when the check runs; that log has the log of the time
\* assert_that returned as a prefix (nothing seen then is removed or
\* reordered, records appended since are observed).
C9_SnapshotIsPrefix ==
    \A t \in Threads :
        /\ pc[t] \in Holding => IsPrefix(snap[t], logs[item[t]])
        /\ (op[t].name \in AssertionMethods \cup MetaMethods /\ outcome[t] # Pending)
               => (IsPrefix(snap[t], seen[t]) /\ outcome[t] = Eval(op[t], seen[t]))

\* a check has scanned a record appended after assert_that returned
C9_Witness ==
    \E t \in Threads :
        /\ outcome[t] # Pending
        /\ Len(snap[t]) = 1 /\ Len(seen[t]) = 2
        /\ seen[t][1] # seen[t][2]

\* C10: an Assertion obtained when no log_call has taken effect since the
\* last clear passes wasnt_called, for every key.
C10_Reset ==
    \A t \in Threads :
        (Checked(t, "wasnt_called") /\ clean[t]) => outcome[t] = Ok

\* wasnt_called has passed after a clear for a key that was logged before
C10_Witness ==
    \E t \in Threads :
        /\ Checked(t, "wasnt_called") /\ clean[t] /\ key[t] \in used[trk[t]]
        /\ outcome[t] = Ok

\* C12: for a key that was never passed to log_call, was_called_times(0)
\* succeeds.
C12_ZeroTimesOnUnlogged ==
    \A t \in Threads :
        (Checked(t, "was_called_times") /\ op[t].arg = 0 /\ key[t] \notin used[trk[t]])
            => outcome[t] = Ok

\* the argument payload of record i of v is missing or not of x's type
Unrecoverable(v, i, x) ==
    v[i].arguments = None \/ v[i].arguments.ty # x.ty

\* C15 as stated: with(x) never succeeds when the log is empty, when no
\* record carries an argument payload, or when some logged argument payload
\* has another type than x; in the last two cases it aborts with the
\* missing-payload or the type-mismatch failure.
C15_FailLoudAnyRecord ==
    \A t \in Threads :
        Checked(t, "with") =>
            LET v == seen[t]
                x == op[t].arg
            IN  /\ (\/ Len(v) = 0
                    \/ \A i \in 1..Len(v) : v[i].arguments = None
                    \/ \E i \in 1..Len(v) : Unrecoverable(v, i, x))
                       => outcome[t] # Ok
                /\ (Len(v) > 0 /\ \E i \in 1..Len(v) : Unrecoverable(v, i, x))
                       => outcome[t] \in {MsgNoArguments, MsgWrongType}

\* C15 amended: with(x) succeeds only if some record carries x and no record
\* before it has a missing or mistyped argument payload; on an empty log it
\* fails as "wasn't called"; when the first record that is not a well-typed
\* unequal one has no argument payload or one of another type, with aborts
\* with the missing-payload or the type-mismatch failure, which differ from
\* each other and from the "no record matched" failure.
C15_FailLoudUpToFirstMatch ==
    \A t \in Threads :
        Checked(t, "with") =>
            LET v == seen[t]
                x == op[t].arg
                Before(i) == \A j \in 1..(i - 1) :
                                 ~Unrecoverable(v, j, x) /\ v[j].arguments # x
            IN  /\ outcome[t] = Ok =>
                       \E i \in 1..Len(v) : v[i].arguments = x /\ Before(i)
                /\ Len(v) = 0 => outcome[t] = MsgWasntCalled
                /\ \A i \in 1..Len(v) :
                       (Unrecoverable(v, i, x) /\ Before(i)) =>
                           outcome[t] = IF v[i].arguments = None
                                        THEN MsgNoArguments ELSE MsgWrongType
                /\ (Len(v) > 0 /\ Before(Len(v) + 1)) => outcome[t] = MsgNotWith
                /\ Cardinality({Ok, MsgWasntCalled, MsgNoArguments,
                                MsgWrongType, MsgNotWith}) = 5

\* with has succeeded on a log that holds, after the matching record, a
\* record whose argument payload is missing or of another type
C15_Witness ==
    \E t \in Threads :
        /\ Checked(t, "with") /\ outcome[t] = Ok
        /\ \E i \in 1..Len(seen[t]) : Unrecoverable(seen[t], i, op[t].arg)
        /\ \E i \in 1..Len(seen[t]) :
               seen[t][i].arguments # None /\ seen[t][i].arguments.ty # op[t].arg.ty

\* C16: was_called_once on a log of 0 records fails with "<key> wasn't
\* called."; on a log of N > 1 records it fails with "<key> was called more
\* than once. Was called N times.", N being the number of records logged;
\* the two failures are different ones.
C16_OnceFailureKinds ==
    \A t \in Threads :
        Checked(t, "was_called_once") =>
            LET N == Len(Logged(t))
                args == was_called_once_args(seen[t], key[t])
            IN  /\ N = 0 => (outcome[t] = MsgWasntCalled /\ args = <<key[t]>>)
                /\ N > 1 => (outcome[t] = MsgMoreThanOnce /\ args = <<key[t], N>>)
                /\ MsgWasntCalled # MsgMoreThanOnce

\* was_called_once has failed on a key that was logged three times
C16_Witness ==
    \E t \in Threads :
        /\ Checked(t, "was_called_once")
        /\ Len(Logged(t)) = 3
        /\ outcome[t] = MsgMoreThanOnce

\* C20: for every key the registered log only grows at its end: a log_call
\* for the key appends its record after the records already there, and no
\* other step than clear changes them, so the log before a step is a prefix
\* of the log after it and records stay in the order their log_calls took
\* effect, under every interleaving.
C20_AppendOnly ==
    [][\A tr \in Trackers, k \in AllKeys :
          /\ (\A t \in Threads : ~(clear(t) /\ trk[t] = tr))
                 => IsPrefix(Registered(tr, k), Registered(tr, k)')
          /\ \A t \in Threads :
                 ((log_call_push(t) \/ log_call_insert(t)) /\ trk[t] = tr /\ key[t] = k)
                     => Registered(tr, k)' = Append(Registered(tr, k), op[t].arg)]_vars

\* the log of a key holds two different records in the order they were
\* logged, and a thread is in the middle of an operation
C20_Witness ==
    \E k \in Keys, t \in Threads :
        /\ Len(Registered(TrackerOne, k)) = 2
        /\ Registered(TrackerOne, k)[1] # Registered(TrackerOne, k)[2]
        /\ Registered(TrackerOne, k) = history[TrackerOne][k]
        /\ pc[t] # "idle"

\* a step of thread t in assert_that, in a check, or dropping its handle
Reads(t) ==
    \/ \E tr \in Trackers, k \in AllKeys : assert_that_lock(t, tr, k)
    \/ assert_that(t)
    \/ \E o \in SeqOps : read(t, o)
    \/ WasCalledOnce(t) \/ WasCalledTimes(t) \/ WasntCalled(t)
    \/ With(t) \/ NotWith(t) \/ AndReturned(t)
    \/ drop(t)

\* two threads hold or held Assertions for the same key of the same Tracker
\* and no log_call or clear took effect since the earlier assert_that
SameView(t, u) ==
    /\ t # u
    /\ untouched[t] /\ untouched[u]
    /\ trk[t] = trk[u] /\ key[t] = key[u]

\* C11: assert_that and the checks are pure reads: no step of them changes
\* a map (assert_that for an unknown key does not register it) or the
\* records of a log that stays alive; and two assert_that(k) with no
\* log_call or clear in between give Assertions whose logs are equal, so
\* every check gives the same outcome on both.
C11_PureReads ==
    /\ [][\A t \in Threads :
             Reads(t) =>
                 /\ calls' = calls
                 /\ history' = history
                 /\ \A l \in LogIds \cap Alive(calls', item', pc') : logs'[l] = logs[l]]_vars
    /\ [](\A t, u \in Threads :
             SameView(t, u) =>
                 /\ (pc[t] \in Holding /\ pc[u] \in Holding) =>
                        /\ logs[item[t]] = logs[item[u]]
                        /\ \A o \in SeqOps :
                               Eval(o, logs[item[t]]) = Eval(o, logs[item[u]])
                 /\ (op[t] = op[u] /\ outcome[t] # Pending /\ outcome[u] # Pending)
                        => outcome[t] = outcome[u])

\* two threads took an Assertion for the same key, which is in no map, with
\* no log_call or clear in between, and have both run the same check
C11_Witness ==
    \E t, u \in Threads :
        /\ SameView(t, u)
        /\ calls[trk[t]][key[t]] = NoLog
        /\ op[t] = op[u] /\ outcome[t] # Pending /\ outcome[t] = outcome[u]

\* C13: while a thread is inside an operation for key A (running it, or
\* waiting in it for the lock of A's log), a thread that starts an
\* operation for another key B of the same Tracker does not have to wait:
\* its assert_that(B) can take its first step, and so can its check on a log
\* taken for B.
C13_CrossKeyNonContention ==
    \A t, u \in Threads, B \in Keys :
        (t # u /\ pc[t] # "idle" /\ key[t] \notin {B, ""})
            => /\ pc[u] = "idle" => ENABLED assert_that_lock(u, trk[t], B)
               /\ (pc[u] = "assertion" /\ key[u] = B)
                      => ENABLED read(u, [name |-> "was_called_once", arg |-> 0])

\* C18: every Tracker is a registry of its own: a log_call on one Tracker
\* changes no entry and no log of another, and was_called_once and
\* wasnt_called on an Assertion of a Tracker count the log_calls made for
\* the key on that Tracker only, whatever was logged for the key elsewhere.
C18_TrackerIndependence ==
    /\ [][\A t \in Threads, tr \in Trackers :
             ((log_call_push(t) \/ log_call_insert(t)) /\ trk[t] # tr)
                 => /\ calls'[tr] = calls[tr]
                    /\ \A k \in AllKeys : Registered(tr, k)' = Registered(tr, k)]_vars
    /\ [](\A t \in Threads :
             /\ Checked(t, "was_called_once")
                    => (outcome[t] = Ok <=> Len(Logged(t)) = 1)
             /\ Checked(t, "wasnt_called")
                    => (outcome[t] = Ok <=> Len(Logged(t)) = 0))

\* wasnt_called has passed on one Tracker for a key that was logged once on
\* the other Tracker
C18_Witness ==
    \E t \in Threads, tr \in Trackers :
        /\ Checked(t, "wasnt_called") /\ outcome[t] = Ok
        /\ tr # trk[t]
        /\ Len(Registered(tr, key[t])) = 1
        /\ was_called_once(Registered(tr, key[t])) = Ok

\* thread t runs a chain for a key under which exactly one record was logged
SingleCall(t) == key[t] # "" /\ Len(Logged(t)) = 1

\* C17: when exactly one record {arguments = a, returned = r} was logged for
\* the key, was_called_once succeeds and returns a MetaAssertion on the log
\* holding that record; with(x) on it succeeds iff x = a (fails for x # a)
\* and, when it succeeds, returns the MetaAssertion on the same log;
\* and_returned(v) on it succeeds iff v = r.  The chain
\* was_called_once().with(x).and_returned(v), each step of which runs on
\* what the step before returned, so succeeds iff x = a and v = r.
C17_SingleCallChain ==
    \A t \in Threads :
        SingleCall(t) =>
            LET rec == Logged(t)[1]
                HandsOn == pc[t] = "meta" /\ logs[item[t]] = <<rec>>
                                          /\ seen[t] = <<rec>>
            IN  /\ Checked(t, "was_called_once")
                       => (outcome[t] = Ok /\ HandsOn)
                /\ Checked(t, "with")
                       => /\ outcome[t] = Ok <=> op[t].arg = rec.arguments
                          /\ outcome[t] = Ok => HandsOn
                /\ Checked(t, "and_returned")
                       => /\ outcome[t] = Ok <=> op[t].arg = rec.returned
                          /\ seen[t] = <<rec>>

\* and_returned has succeeded at the end of a chain on a single record
\* whose arguments and return value differ
C17_Witness ==
    \E t \in Threads :
        /\ SingleCall(t)
        /\ Checked(t, "and_returned") /\ outcome[t] = Ok
        /\ Logged(t)[1].arguments \in Expected
        /\ Logged(t)[1].arguments # Logged(t)[1].returned

\* a thread is inside a call: waiting for a lock or running under one
InCall == {"called", "log_call_locked", "log_call_waiting", "log_call_writing",
           "log_call_pushed", "finished",
           "assert_that_locked",
           "clear_locked", "print_debug_locked", "check_called", "reading"}

\* C14: every call of log_call, assert_that, clear, print_debug or of a
\* check that a thread has started returns or fails its assertion: no
\* thread stays forever inside a call, waiting for the mutex of the map or
\* for the lock of a log.
C14_Progress ==
    \A t \in Threads : (pc[t] \in InCall) ~> (pc[t] \notin InCall)

\* a log_call holds the mutex and waits for the lock of a log that the
\* other thread is reading
C14_Witness ==
    \E t, u \in Threads :
        /\ pc[t] = "log_call_waiting" /\ item[t] # NoLog
        /\ pc[u] = "reading" /\ u \in readers[item[t]]

\* the names the attribute of an impl block excludes: the trimmed pieces
\* between the commas of its exclude argument
Excluded(item_impl) ==
    LET exclude == parse_args(item_impl.attr).exclude
    IN  {exclude[i] : i \in 1..Len(exclude)}

\* the Tracker of an impl block: the one its attribute names, in self
\* unless include_receiver is false
BlockTracker(item_impl) ==
    Resolve(IF "include_receiver" \in DOMAIN item_impl.attr /\ ~item_impl.attr.include_receiver
            THEN item_impl.attr.tracker_path
            ELSE "self." \o item_impl.attr.tracker_path)

\* "Namespace::method" for the method a frame runs: the namespace given in
\* the attribute of the block, or the name of its type
MethodKey(f) ==
    (IF "namespace" \in DOMAIN f.item.attr THEN f.item.attr.namespace ELSE f.item.self_ty)
    \o "::" \o f.ident

\* the record of the invocation frame f stands for: owned copies of the
\* inputs the caller passed that the method binds to an identifier, as they
\* were at entry, and of the value the method returned to it
InvocationRecord(f) ==
    LET method == CHOOSE m \in f.item.items : m.ident = f.ident
    IN  CallInfo(Boxed(let_args(method, f.inputs)), Boxed(to_owned(f.returned)))

\* C19: when an invocation of a method of an instrumented impl block
\* returns, then on the Tracker of the block: if the method is listed in
\* exclude, the log of "Namespace::method" is as it was when the invocation
\* began; if it is not listed and has a receiver, the log of
\* "Namespace::method", and no other log, has got the record of the
\* invocation at its end.  Namespace is the one given in the attribute or
\* the name of the type.
C19_ImplInstrumentation ==
    [][\A t \in Threads, tr \in Trackers, name \in MacroKeys :
          (/\ frame[t] # NoFrame /\ frame'[t] = NoFrame
           /\ tr = BlockTracker(frame[t].item)
           /\ name = MethodKey(frame[t])) =>
              /\ frame[t].ident \in Excluded(frame[t].item)
                     => Registered(tr, name)' = frame[t].entry[tr][name]
              /\ (frame[t].ident \notin Excluded(frame[t].item) /\ frame[t].receiver)
                     => /\ Registered(tr, name)' = Append(frame[t].entry[tr][name], InvocationRecord(frame[t]))
                        /\ \A k \in AllKeys \ {name} :
                               Registered(tr, k)' = frame[t].entry[tr][k]]_vars

\* C21: a log is never read by a check while a log_call is appending to it:
\* the write guard of a log is held by nobody but one thread inside
\* log_call, and only while no check holds a read guard of that log; every
\* check holds its read guard from its first statement to the end of its
\* scan, during which no step changes the log, so the Vec it scans is the
\* one it locked, with every record whole.
C21_ReaderWriterExclusion ==
    /\ [](\A l \in LogIds :
             /\ writer[l] # NoThread
                    => /\ readers[l] = {}
                       /\ pc[writer[l]] = "log_call_writing" /\ item[writer[l]] = l
             /\ \A t \in Threads :
                    (pc[t] = "reading" /\ item[t] = l) <=> t \in readers[l]
             /\ \A t \in Threads :
                    (pc[t] = "log_call_writing" /\ item[t] = l) <=> writer[l] = t)
    /\ [][\A t \in Threads :
             pc[t] = "reading" =>
                 /\ pc'[t] = "reading" => logs'[item[t]] = logs[item[t]]
                 /\ pc'[t] # "reading" =>
                        (seen'[t] = logs[item[t]] /\ outcome'[t] = Eval(op[t], logs[item[t]]))]_vars

\* a check holds the read guard of a log that holds a record while a
\* log_call for the same key, which holds the mutex, cannot get the write
\* guard
C21_Witness ==
    \E t, u \in Threads :
        /\ pc[u] = "reading" /\ logs[item[u]] # <<>>
        /\ pc[t] = "log_call_waiting" /\ item[t] = item[u]
        /\ ~CanWrite(item[t])
        /\ ~ENABLED log_call_write_granted(t)

\* thread t owns a MetaAssertion: it holds one between two checks, or is
\* inside a method of it, up to the drop of self after the read guard
HasMeta(t) ==
    \/ pc[t] = "meta"
    \/ pc[t] \in {"check_called", "reading", "finished"} /\ op[t].name \in MetaMethods

\* C22: the log of a MetaAssertion holds at least one record at every
\* moment, whatever log_call and clear do meanwhile (clear unregisters logs
\* but removes no record of a log that was handed out); so with and
\* and_returned never fail with "wasn't called" and not_with never passes
\* on an empty log.
C22_MetaAssertionNonEmpty ==
    /\ [](\A t \in Threads :
             /\ HasMeta(t) => (item[t] # NoLog /\ Len(logs[item[t]]) >= 1)
             /\ (op[t].name \in MetaMethods /\ outcome[t] # Pending)
                    => (Len(seen[t]) >= 1 /\ outcome[t] # MsgWasntCalled))
    /\ [][\A t \in Threads :
             (HasMeta(t) /\ HasMeta(t)') => IsPrefix(logs[item[t]], logs'[item[t]])]_vars

\* a thread holds a MetaAssertion on a log that a clear has unregistered
\* while every record of the log is still there
C22_Witness ==
    \E t \in Threads :
        /\ pc[t] = "meta"
        /\ calls[trk[t]][key[t]] # item[t]
        /\ history[trk[t]][key[t]] = <<>>
        /\ IsPrefix(snap[t], logs[item[t]]) /\ Len(snap[t]) >= 1

\* log l is registered in the map of some Tracker
InRegistry(l) == \E tr \in Trackers, k \in AllKeys : calls[tr][k] = l

\* thread t holds an Assertion taken when its key had no log in the map (a
\* registered log holds the record it was inserted with, so the log seen
\* when assert_that returned was empty)
Detached(t) == pc[t] \in Holding /\ snap[t] = <<>>

\* C23: assert_that(k) for a key that has no log in the map (never logged,
\* or cleared) gives an Assertion on a new empty log that is never put into
\* the map; no log_call made afterwards reaches that log, and wasnt_called
\* on the Assertion succeeds however many calls of k are logged between
\* assert_that and the check.
C23_DetachedAssertion ==
    /\ [][\A t \in Threads :
             (assert_that(t) /\ get(calls[Map(t)], key[t]) = NoLog)
                 => /\ Detached(t)'
                    /\ item'[t] # NoLog
                    /\ \A tr \in Trackers, k \in AllKeys : calls'[tr][k] # item'[t]
                    /\ calls' = calls]_vars
    /\ [](\A t \in Threads :
             /\ Detached(t) => (~InRegistry(item[t]) /\ logs[item[t]] = <<>>)
             /\ (Checked(t, "wasnt_called") /\ snap[t] = <<>>)
                    => (outcome[t] = Ok /\ seen[t] = <<>>))

\* wasnt_called has passed on an Assertion although two calls of its key
\* were logged after assert_that returned and are registered
C23_Witness ==
    \E t \in Threads :
        /\ Checked(t, "wasnt_called") /\ outcome[t] = Ok
        /\ Len(Logged(t)) = 2
        /\ Registered(trk[t], key[t]) = Logged(t)

\* C24: the records seen through an Assertion or MetaAssertion never get
\* fewer: while a thread holds its handle, every step (a clear too) leaves
\* the handle on the same log and that log with the records it had, in
\* order, at its front; a clear of the Tracker changes no record of the log,
\* and a log_call that takes effect while the log is not the one registered
\* for its key leaves the log as it is (its record goes to another log).
C24_HandleNeverShrinks ==
    [][\A t \in Threads :
          (pc[t] \in Holding /\ pc'[t] \in Holding) =>
              /\ item'[t] = item[t]
              /\ IsPrefix(logs[item[t]], logs'[item[t]])
              /\ \A u \in Threads :
                     /\ clear(u) => logs'[item[t]] = logs[item[t]]
                     /\ ((log_call_push(u) \/ log_call_insert(u))
                            /\ calls[trk[u]][key[u]] # item[t])
                          => logs'[item[t]] = logs[item[t]]]_vars

\* a thread holds a handle on a log with a record logged before a clear,
\* while the map holds, for the same key, another log with another record
\* logged after the clear
C24_Witness ==
    \E t \in Threads :
        /\ pc[t] \in Holding
        /\ Len(logs[item[t]]) >= 1
        /\ calls[trk[t]][key[t]] \notin {NoLog, item[t]}
        /\ Registered(trk[t], key[t]) # logs[item[t]]
        /\ IsPrefix(snap[t], logs[item[t]])

\* the Vecs that hold the records of v in some order
Reorderings(v) ==
    {[i \in 1..Len(v) |-> v[f[i]]] :
         f \in {g \in [1..Len(v) -> 1..Len(v)] :
                    \A i, j \in 1..Len(v) : g[i] = g[j] => i = j}}

\* C25: the outcome of with(x), not_with(x) and and_returned(v) is the same
\* for every order of the records of the log: the check gives on every
\* permutation of the log it scanned the outcome it gave on the log.
C25_OrderIndependence ==
    \A t \in Threads :
        (op[t].name \in MetaMethods /\ outcome[t] # Pending)
            => \A w \in Reorderings(seen[t]) : Eval(op[t], w) = outcome[t]

\* C26: every invocation of an instrumented function or method that returns
\* has appended, for every track_with on it, one record with its arguments
\* and its returned value to the log of that attribute's key on that
\* attribute's Tracker, and nothing else to any log, whether its statements
\* end with the value of the block or return from inside.
C26_OneRecordPerInvocation ==
    [][\A t \in Threads :
          (/\ frame[t] # NoFrame /\ frame'[t] = NoFrame
           /\ log_calls(Generated(t)) # <<>>) =>
              \A tr \in Trackers, k \in AllKeys :
                  LET made == {i \in 1..Len(log_calls(Generated(t))) :
                                  /\ Resolve(log_calls(Generated(t))[i].tracker_path) = tr
                                  /\ log_calls(Generated(t))[i].name = k}
                  IN  Registered(tr, k)' =
                          frame[t].entry[tr][k]
                              \o [i \in 1..Cardinality(made) |->
                                     InvocationRecord(frame[t])]]_vars

====
